---------------------------- MODULE Spec2Model ----------------------------
(***************************************************************************)
(* Rocket subsystem simulation: system threads (system.c) consume and      *)
(* produce shared Resources under per-resource semaphores and report       *)
(* failures through a priority EventQueue (event.c) drained by the manager *)
(* thread (manager.c).                                                     *)
(*                                                                         *)
(* Every access to shared memory (a Resource's amount, a semaphore, the    *)
(* queue, a System's status, simulation_running) is one step of the thread *)
(* that makes it; the position of each thread is pc[t].                    *)
(***************************************************************************)
EXTENDS Integers, Sequences, FiniteSets

(* ---- defs.h ---------------------------------------------------------- *)
TERMINATE == 0
DISABLED == 1
SLOW == 2
STANDARD == 3
FAST == 4

STATUS_OK == -1
STATUS_EMPTY == 0
STATUS_LOW == 1
STATUS_INSUFFICIENT == 2
STATUS_CAPACITY == 3

PRIORITY_HIGH == 3
PRIORITY_MED == 2
PRIORITY_LOW == 1

(* ---- bounds ---------------------------------------------------------- *)
\* Events pushed in one run (the histories pushed/popped are finite).
MaxPush == 3

(* ---- the scenario (main.c load_data, quantities scaled down) --------- *)
NULL == "NULL"
Resources == {"Fuel", "Oxygen", "Energy", "Distance"}
QueueLock == "Queue"
Locks == Resources \cup {QueueLock}
AllSystems == {"Propulsion", "LifeSupport", "Crew", "Generator", "Solar"}
ManagerT == "Manager"
Threads == AllSystems \cup {ManagerT}

\* resource_create(&r, name, amount, max_capacity): the capacities
MaxCapacity ==
  [r \in Resources |->
     CASE r = "Fuel" -> 2 [] r = "Oxygen" -> 2 [] r = "Energy" -> 3 [] OTHER -> 3]

\* resource_amount_init + system_create: consumed and produced ResourceAmount
Consumed ==
  [s \in AllSystems |->
     CASE s = "Propulsion" -> [resource |-> "Fuel", amount |-> 1]
       [] s = "LifeSupport" -> [resource |-> "Energy", amount |-> 2]
       [] s = "Crew" -> [resource |-> "Oxygen", amount |-> 1]
       [] s = "Generator" -> [resource |-> "Fuel", amount |-> 1]
       [] OTHER -> [resource |-> NULL, amount |-> 0]]

Produced ==
  [s \in AllSystems |->
     CASE s = "Propulsion" -> [resource |-> "Distance", amount |-> 2]
       [] s = "LifeSupport" -> [resource |-> "Oxygen", amount |-> 2]
       [] s = "Crew" -> [resource |-> NULL, amount |-> 0]
       [] s = "Generator" -> [resource |-> "Energy", amount |-> 2]
       [] OTHER -> [resource |-> "Energy", amount |-> 2]]

\* The runs checked: the systems added to the manager (system_array_add) and
\* the starting amount of each resource (resource_create).
Amounts(fuel, oxygen, energy, distance) ==
  [r \in Resources |->
     CASE r = "Fuel" -> fuel [] r = "Oxygen" -> oxygen [] r = "Energy" -> energy
       [] OTHER -> distance]

Scenarios ==
  { [systems |-> {"Propulsion", "Generator"}, amount |-> Amounts(2, 1, 1, 2)],
    [systems |-> {"Generator", "LifeSupport"}, amount |-> Amounts(2, 1, 1, 0)],
    [systems |-> {"LifeSupport", "Crew"}, amount |-> Amounts(0, 1, 3, 0)],
    [systems |-> {"Solar", "Crew"}, amount |-> Amounts(0, 1, 1, 0)] }

(* ---- state ----------------------------------------------------------- *)
VARIABLES
  amount,              \* Resource.amount
  sem,                 \* value of each semaphore (Resource.lock, EventQueue.lock)
  status,              \* System.status
  amount_stored,       \* System.amount_stored
  result_status,       \* system_run's local result_status
  available_space,     \* system_store_resources' local available_space
  event,               \* each thread's local Event
  queue,               \* EventQueue: the linked list, head first
  queue_size,          \* EventQueue.size
  simulation_running,  \* Manager.simulation_running
  system_array,        \* Manager.system_array
  pc,                  \* position of each thread
  held,                \* history: the semaphores each thread has taken and not posted
  seen,                \* history: the amount system_convert's test (line 104) read
  pushed,              \* history: events in the order event_queue_push inserted them
  popped               \* history: events in the order event_queue_pop returned them

vars == <<amount, sem, status, amount_stored, result_status, available_space,
          event, queue, queue_size, simulation_running, system_array, pc, held,
          seen, pushed, popped>>

NoEvent == [system |-> NULL, resource |-> NULL, status |-> STATUS_OK,
            priority |-> 0, amount |-> 0, seq |-> 0, at |-> 0]

\* event_init: seq (the push's number) and at (pushes made when popped) are history
event_init(system, resource, st, priority, amt) ==
  [system |-> system, resource |-> resource, status |-> st,
   priority |-> priority, amount |-> amt, seq |-> 0, at |-> 0]

(* ---- construction ---------------------------------------------------- *)
\* event_queue_init: sem_init(&queue->lock, 0, 1)
event_queue_init_value == 1

\* resource_create: the Resource's lock is an exclusive lock, initially free
resource_create_value == 1

\* manager_init and system_create: everything but the scenario
Constructed ==
  /\ sem = [l \in Locks |-> IF l = QueueLock THEN event_queue_init_value
                                             ELSE resource_create_value]
  /\ status = [s \in AllSystems |-> STANDARD]
  /\ amount_stored = [s \in AllSystems |-> 0]
  /\ result_status = [s \in AllSystems |-> STATUS_OK]
  /\ available_space = [s \in AllSystems |-> 0]
  /\ event = [t \in Threads |-> NoEvent]
  /\ queue = <<>>
  /\ queue_size = 0
  /\ simulation_running = 1
  /\ held = [t \in Threads |-> {}]
  /\ seen = [s \in AllSystems |-> 0]
  /\ pushed = <<>>
  /\ popped = <<>>

Init ==
  /\ Constructed
  /\ \E sc \in Scenarios : system_array = sc.systems /\ amount = sc.amount
  /\ pc = [t \in Threads |->
             IF t = ManagerT THEN "m_loop"
             ELSE IF t \in system_array THEN "w_loop" ELSE "absent"]

(* ---- semaphores ------------------------------------------------------ *)
\* sem_wait that returns without waiting for a positive value
sem_wait_nonblocking(t, l) ==
  /\ sem' = [sem EXCEPT ![l] = IF @ > 0 THEN @ - 1 ELSE @]
  /\ held' = [held EXCEPT ![t] = @ \cup {l}]

\* sem_wait: blocks until the value is positive, then decrements it
sem_wait(t, l) ==
  /\ sem[l] > 0
  /\ sem' = [sem EXCEPT ![l] = @ - 1]
  /\ held' = [held EXCEPT ![t] = @ \cup {l}]

\* sem_post: increments the value
sem_post(t, l) ==
  /\ sem' = [sem EXCEPT ![l] = @ + 1]
  /\ held' = [held EXCEPT ![t] = @ \ {l}]

(* ---- system.c: the system thread ------------------------------------- *)
\* A worker that is inside system_run and has not yet pushed in this call
\* may still push one event.
MayPush(s) ==
  pc[s] \in {"c_wait", "c_check", "c_dec", "c_post_ok", "c_sleep", "c_post_fail",
             "c_ret", "c_evt", "s_wait", "s_check", "s_all", "s_part",
             "s_post_ok", "s_post_cap", "s_evt", "p_wait", "p_ins"}

\* Bound of the model: a new call of system_run starts only while the events
\* it and the calls in progress may push fit in MaxPush.
WithinBound ==
  Len(pushed) + Cardinality({s \in AllSystems : MayPush(s)}) < MaxPush

\* system_run line 75: the second step runs only with something stored
AfterConvert(s, stored) == IF stored > 0 THEN "s_wait" ELSE "w_loop"

\* system_run without the test of line 66: system_convert is always called
SystemThreadAlwaysConverts(s) ==
  /\ pc[s] \in {"w_loop", "b_sleep1", "b_sleep2"}
  /\ IF pc[s] = "b_sleep1" /\ amount_stored[s] > 0
       THEN pc' = [pc EXCEPT ![s] = "s_wait"]
       ELSE IF status[s] = TERMINATE
       THEN pc' = [pc EXCEPT ![s] = "done"]
       ELSE /\ WithinBound
            /\ pc' = [pc EXCEPT ![s] = "c_wait"]
  /\ UNCHANGED <<amount, sem, status, amount_stored, result_status,
                 available_space, event, queue, queue_size, simulation_running,
                 system_array, held, pushed, popped, seen>>

\* the loop of system_thread also ending after a failed deposit
SystemThreadGivesUp(s) ==
  /\ pc[s] \in {"w_loop", "b_sleep1", "b_sleep2"}
  /\ IF pc[s] = "b_sleep1" /\ amount_stored[s] > 0
       THEN pc' = [pc EXCEPT ![s] = "s_wait"]
       ELSE IF status[s] = TERMINATE \/ pc[s] = "b_sleep2"
       THEN pc' = [pc EXCEPT ![s] = "done"]
       ELSE /\ WithinBound
            /\ pc' = [pc EXCEPT ![s] = IF amount_stored[s] = 0 THEN "c_wait"
                                                               ELSE "s_wait"]
  /\ UNCHANGED <<amount, sem, status, amount_stored, result_status,
                 available_space, event, queue, queue_size, simulation_running,
                 system_array, held, pushed, popped, seen>>

\* system_thread: while (system->status != TERMINATE) system_run(system);
\* system_run line 66 (system_convert is called with nothing stored).
\* The thread is at the loop test at the start, after system_run returns and
\* when a backoff usleep (line 71, then the test of line 75; line 80) ends.
SystemThread(s) ==
  /\ pc[s] \in {"w_loop", "b_sleep1", "b_sleep2"}
  /\ IF pc[s] = "b_sleep1" /\ amount_stored[s] > 0
       THEN pc' = [pc EXCEPT ![s] = "s_wait"]
       ELSE IF status[s] = TERMINATE
       THEN pc' = [pc EXCEPT ![s] = "done"]
       ELSE /\ WithinBound
            /\ pc' = [pc EXCEPT ![s] = IF amount_stored[s] = 0 THEN "c_wait"
                                                               ELSE "s_wait"]
  /\ UNCHANGED <<amount, sem, status, amount_stored, result_status,
                 available_space, event, queue, queue_size, simulation_running,
                 system_array, held, pushed, popped, seen>>

\* system_convert lines 96-103: without a consumed resource STATUS_OK is
\* returned at once (lines 99-101; system_run lines 68, 75); otherwise
\* sem_wait(&consumed_resource->lock)
ConvertWait(s) ==
  /\ pc[s] = "c_wait"
  /\ IF Consumed[s].resource = NULL
       THEN /\ result_status' = [result_status EXCEPT ![s] = STATUS_OK]
            /\ pc' = [pc EXCEPT ![s] = AfterConvert(s, amount_stored[s])]
            /\ UNCHANGED <<sem, held>>
       ELSE /\ sem_wait(s, Consumed[s].resource)
            /\ pc' = [pc EXCEPT ![s] = "c_check"]
            /\ UNCHANGED result_status
  /\ UNCHANGED <<amount, status, amount_stored, available_space,
                 event, queue, queue_size, simulation_running, system_array,
                 pushed, popped, seen>>

\* the test of line 104 made against zero instead of the requested amount
EnoughNonZero(have, wanted) == have > 0

\* system_convert line 104: the test consumed_resource->amount >= amount_consumed
Enough(have, wanted) == have >= wanted

ConvertCheck(s) ==
  /\ pc[s] = "c_check"
  /\ pc' = [pc EXCEPT ![s] =
              IF Enough(amount[Consumed[s].resource], Consumed[s].amount)
                THEN "c_dec" ELSE "c_post_fail"]
  /\ UNCHANGED <<amount, sem, status, amount_stored, result_status,
                 available_space, event, queue, queue_size, simulation_running,
                 system_array, held, pushed, popped>>
  /\ seen' = [seen EXCEPT ![s] = amount[Consumed[s].resource]]

\* system_convert line 105: consumed_resource->amount -= amount_consumed
ConvertDec(s) ==
  /\ pc[s] = "c_dec"
  /\ amount' = [amount EXCEPT ![Consumed[s].resource] = @ - Consumed[s].amount]
  /\ pc' = [pc EXCEPT ![s] = "c_post_ok"]
  /\ UNCHANGED <<sem, status, amount_stored, result_status, available_space,
                 event, queue, queue_size, simulation_running, system_array,
                 held, pushed, popped, seen>>

\* line 106 without its sem_post: the delay starts inside the critical section
ConvertPostOkNoPost(s) ==
  /\ pc[s] = "c_post_ok"
  /\ pc' = [pc EXCEPT ![s] = "c_sleep"]
  /\ UNCHANGED <<amount, sem, status, amount_stored, result_status,
                 available_space, event, queue, queue_size, simulation_running,
                 system_array, held, pushed, popped, seen>>

\* system_convert line 106: sem_post, then system_simulate_process_time starts
ConvertPostOk(s) ==
  /\ pc[s] = "c_post_ok"
  /\ sem_post(s, Consumed[s].resource)
  /\ pc' = [pc EXCEPT ![s] = "c_sleep"]
  /\ UNCHANGED <<amount, status, amount_stored, result_status, available_space,
                 event, queue, queue_size, simulation_running, system_array,
                 pushed, popped, seen>>

\* lines 108-110 adding the consumed amount, without the test of line 108
ConvertDoneStoresConsumed(s) ==
  /\ pc[s] = "c_sleep"
  /\ LET stored == amount_stored[s] + Consumed[s].amount
     IN /\ amount_stored' = [amount_stored EXCEPT ![s] = stored]
        /\ pc' = [pc EXCEPT ![s] = AfterConvert(s, stored)]
  /\ result_status' = [result_status EXCEPT ![s] = STATUS_OK]
  /\ UNCHANGED <<amount, sem, status, available_space, event, queue,
                 queue_size, simulation_running, system_array, held, pushed,
                 popped>>
  /\ seen' = [seen EXCEPT ![s] = 0]

\* system_convert lines 107-111: the usleep of system_simulate_process_time
\* ends, amount_stored grows, STATUS_OK is returned; system_run lines 68, 75.
ConvertDone(s) ==
  /\ pc[s] = "c_sleep"
  /\ LET stored == IF Produced[s].resource # NULL
                     THEN amount_stored[s] + Produced[s].amount
                     ELSE amount_stored[s]
     IN /\ amount_stored' = [amount_stored EXCEPT ![s] = stored]
        /\ pc' = [pc EXCEPT ![s] = AfterConvert(s, stored)]
  /\ result_status' = [result_status EXCEPT ![s] = STATUS_OK]
  /\ UNCHANGED <<amount, sem, status, available_space, event, queue,
                 queue_size, simulation_running, system_array, held, pushed,
                 popped>>
  /\ seen' = [seen EXCEPT ![s] = 0]

\* line 113 without its sem_post: the failure branch returns with the lock
ConvertPostFailNoPost(s) ==
  /\ pc[s] = "c_post_fail"
  /\ pc' = [pc EXCEPT ![s] = "c_ret"]
  /\ UNCHANGED <<amount, sem, status, amount_stored, result_status,
                 available_space, event, queue, queue_size, simulation_running,
                 system_array, held, pushed, popped, seen>>

\* system_convert line 113: sem_post on the failure branch
ConvertPostFail(s) ==
  /\ pc[s] = "c_post_fail"
  /\ sem_post(s, Consumed[s].resource)
  /\ pc' = [pc EXCEPT ![s] = "c_ret"]
  /\ UNCHANGED <<amount, status, amount_stored, result_status, available_space,
                 event, queue, queue_size, simulation_running, system_array,
                 pushed, popped, seen>>

\* system_convert line 114: the amount is read again, after the sem_post
ConvertReturn(s) ==
  /\ pc[s] = "c_ret"
  /\ result_status' = [result_status EXCEPT ![s] =
                         IF amount[Consumed[s].resource] = 0
                           THEN STATUS_EMPTY ELSE STATUS_INSUFFICIENT]
  /\ pc' = [pc EXCEPT ![s] = "c_evt"]
  /\ UNCHANGED <<amount, sem, status, amount_stored, available_space, event,
                 queue, queue_size, simulation_running, system_array, held,
                 pushed, popped, seen>>

\* system_run lines 68-69: event_init with the consumed resource's amount
RunConsumeEvent(s) ==
  /\ pc[s] = "c_evt"
  /\ event' = [event EXCEPT ![s] =
                 event_init(s, Consumed[s].resource, result_status[s],
                            PRIORITY_HIGH, amount[Consumed[s].resource])]
  /\ pc' = [pc EXCEPT ![s] = "p_wait"]
  /\ UNCHANGED <<amount, sem, status, amount_stored, result_status,
                 available_space, queue, queue_size, simulation_running,
                 system_array, held, pushed, popped, seen>>

\* system_store_resources line 161: sem_wait(&produced_resource->lock)
\* (line 157 cannot return early: system_run line 75 has amount_stored > 0,
\* which only a system with a produced resource reaches)
StoreWait(s) ==
  /\ pc[s] = "s_wait"
  /\ IF Produced[s].resource = NULL \/ amount_stored[s] = 0
       THEN /\ pc' = [pc EXCEPT ![s] = "w_loop"]
            /\ UNCHANGED <<sem, held>>
       ELSE /\ sem_wait(s, Produced[s].resource)
            /\ pc' = [pc EXCEPT ![s] = "s_check"]
  /\ UNCHANGED <<amount, status, amount_stored, result_status, available_space,
                 event, queue, queue_size, simulation_running, system_array,
                 pushed, popped, seen>>

\* system_store_resources lines 163-170: available_space and the branch on it
StoreCheck(s) ==
  /\ pc[s] = "s_check"
  /\ LET space == MaxCapacity[Produced[s].resource] - amount[Produced[s].resource]
     IN /\ available_space' = [available_space EXCEPT ![s] = space]
        /\ pc' = [pc EXCEPT ![s] =
                    IF space >= amount_stored[s] THEN "s_all"
                    ELSE IF space > 0 THEN "s_part" ELSE "s_post_cap"]
  /\ UNCHANGED <<amount, sem, status, amount_stored, result_status, event,
                 queue, queue_size, simulation_running, system_array, held,
                 pushed, popped, seen>>

\* system_store_resources lines 166-167: everything stored fits
StoreAll(s) ==
  /\ pc[s] = "s_all"
  /\ amount' = [amount EXCEPT ![Produced[s].resource] = @ + amount_stored[s]]
  /\ amount_stored' = [amount_stored EXCEPT ![s] = 0]
  /\ pc' = [pc EXCEPT ![s] = "s_post_ok"]
  /\ UNCHANGED <<sem, status, result_status, available_space, event, queue,
                 queue_size, simulation_running, system_array, held, pushed,
                 popped, seen>>

\* lines 171-172 clearing the buffer instead of keeping the remainder
StorePartDropsRest(s) ==
  /\ pc[s] = "s_part"
  /\ amount' = [amount EXCEPT ![Produced[s].resource] = @ + available_space[s]]
  /\ amount_stored' = [amount_stored EXCEPT ![s] = 0]
  /\ pc' = [pc EXCEPT ![s] = "s_post_cap"]
  /\ UNCHANGED <<sem, status, result_status, available_space, event, queue,
                 queue_size, simulation_running, system_array, held, pushed,
                 popped, seen>>

\* system_store_resources lines 171-172: only available_space fits
StorePart(s) ==
  /\ pc[s] = "s_part"
  /\ amount' = [amount EXCEPT ![Produced[s].resource] = @ + available_space[s]]
  /\ amount_stored' = [amount_stored EXCEPT ![s] = @ - available_space[s]]
  /\ pc' = [pc EXCEPT ![s] = "s_post_cap"]
  /\ UNCHANGED <<sem, status, result_status, available_space, event, queue,
                 queue_size, simulation_running, system_array, held, pushed,
                 popped, seen>>

\* system_store_resources lines 168-169: sem_post, STATUS_OK; system_run line 77
StorePostOk(s) ==
  /\ pc[s] = "s_post_ok"
  /\ sem_post(s, Produced[s].resource)
  /\ result_status' = [result_status EXCEPT ![s] = STATUS_OK]
  /\ available_space' = [available_space EXCEPT ![s] = 0]
  /\ pc' = [pc EXCEPT ![s] = "w_loop"]
  /\ UNCHANGED <<amount, status, amount_stored, event, queue, queue_size,
                 simulation_running, system_array, pushed, popped, seen>>

\* line 175 without its sem_post: CAPACITY is returned with the lock
StorePostCapNoPost(s) ==
  /\ pc[s] = "s_post_cap"
  /\ result_status' = [result_status EXCEPT ![s] = STATUS_CAPACITY]
  /\ available_space' = [available_space EXCEPT ![s] = 0]
  /\ pc' = [pc EXCEPT ![s] = "s_evt"]
  /\ UNCHANGED <<amount, sem, status, amount_stored, event, queue, queue_size,
                 simulation_running, system_array, held, pushed, popped, seen>>

\* system_store_resources lines 175-176: sem_post, STATUS_CAPACITY
StorePostCap(s) ==
  /\ pc[s] = "s_post_cap"
  /\ sem_post(s, Produced[s].resource)
  /\ result_status' = [result_status EXCEPT ![s] = STATUS_CAPACITY]
  /\ available_space' = [available_space EXCEPT ![s] = 0]
  /\ pc' = [pc EXCEPT ![s] = "s_evt"]
  /\ UNCHANGED <<amount, status, amount_stored, event, queue, queue_size,
                 simulation_running, system_array, pushed, popped, seen>>

\* line 78 passing PRIORITY_HIGH, like line 69
RunStoreEventHigh(s) ==
  /\ pc[s] = "s_evt"
  /\ event' = [event EXCEPT ![s] =
                 event_init(s, Produced[s].resource, result_status[s],
                            PRIORITY_HIGH, amount[Produced[s].resource])]
  /\ pc' = [pc EXCEPT ![s] = "p_wait"]
  /\ UNCHANGED <<amount, sem, status, amount_stored, result_status,
                 available_space, queue, queue_size, simulation_running,
                 system_array, held, pushed, popped, seen>>

\* system_run lines 77-78: event_init with the produced resource's amount
RunStoreEvent(s) ==
  /\ pc[s] = "s_evt"
  /\ event' = [event EXCEPT ![s] =
                 event_init(s, Produced[s].resource, result_status[s],
                            PRIORITY_LOW, amount[Produced[s].resource])]
  /\ pc' = [pc EXCEPT ![s] = "p_wait"]
  /\ UNCHANGED <<amount, sem, status, amount_stored, result_status,
                 available_space, queue, queue_size, simulation_running,
                 system_array, held, pushed, popped, seen>>

(* ---- event.c: the EventQueue ----------------------------------------- *)
\* the scan of line 83 stopping at the first node of equal priority
RECURSIVE ScanFromStrict(_, _, _)
ScanFromStrict(q, priority, i) ==
  IF i < Len(q) /\ q[i + 1].priority > priority
    THEN ScanFromStrict(q, priority, i + 1)
    ELSE i

\* event_queue_push lines 82-85: the node after which the new one is linked
RECURSIVE ScanFrom(_, _, _)
ScanFrom(q, priority, i) ==
  IF i < Len(q) /\ q[i + 1].priority >= priority
    THEN ScanFrom(q, priority, i + 1)
    ELSE i

\* line 78 testing >= : a new event goes before a head of equal priority
event_queue_push_head_ge(q, e) ==
  IF q = <<>> \/ e.priority >= Head(q).priority
    THEN <<e>> \o q
    ELSE LET k == ScanFrom(q, e.priority, 1)
         IN SubSeq(q, 1, k) \o <<e>> \o SubSeq(q, k + 1, Len(q))

\* line 79 missing: a new head is not linked to the old list
event_queue_push_unlinked(q, e) ==
  IF q = <<>> \/ e.priority > Head(q).priority
    THEN <<e>>
    ELSE LET k == ScanFrom(q, e.priority, 1)
         IN SubSeq(q, 1, k) \o <<e>> \o SubSeq(q, k + 1, Len(q))

\* event_queue_push lines 74-88: the list after linking a copy of e
event_queue_push(q, e) ==
  IF q = <<>> \/ e.priority > Head(q).priority
    THEN <<e>> \o q
    ELSE LET k == ScanFrom(q, e.priority, 1)
         IN SubSeq(q, 1, k) \o <<e>> \o SubSeq(q, k + 1, Len(q))

\* event_queue_push line 72: sem_wait(&queue->lock)
PushWait(s) ==
  /\ pc[s] = "p_wait"
  /\ sem_wait(s, QueueLock)
  /\ pc' = [pc EXCEPT ![s] = "p_ins"]
  /\ UNCHANGED <<amount, status, amount_stored, result_status, available_space,
                 event, queue, queue_size, simulation_running, system_array,
                 pushed, popped, seen>>

\* event_queue_push lines 74-90: link the node, size++
PushInsert(s) ==
  /\ pc[s] = "p_ins"
  /\ LET node == [event[s] EXCEPT !.seq = Len(pushed) + 1]
     IN /\ queue' = event_queue_push(queue, node)
        /\ pushed' = Append(pushed, node)
  /\ queue_size' = queue_size + 1
  /\ pc' = [pc EXCEPT ![s] = "p_post"]
  /\ UNCHANGED <<amount, sem, status, amount_stored, result_status,
                 available_space, event, simulation_running, system_array,
                 held, popped, seen>>

\* event_queue_push line 91: sem_post; system_run then sleeps (line 71 or 80).
\* The locals event and result_status are not read again in this call.
PushPost(s) ==
  /\ pc[s] = "p_post"
  /\ sem_post(s, QueueLock)
  /\ pc' = [pc EXCEPT ![s] = IF result_status[s] = STATUS_CAPACITY
                               THEN "b_sleep2" ELSE "b_sleep1"]
  /\ event' = [event EXCEPT ![s] = NoEvent]
  /\ result_status' = [result_status EXCEPT ![s] = STATUS_OK]
  /\ UNCHANGED <<amount, status, amount_stored, available_space, queue,
                 queue_size, simulation_running, system_array, pushed, popped>>
  /\ seen' = [seen EXCEPT ![s] = 0]

\* event_queue_pop line 104: sem_wait(&queue->lock)
PopWait ==
  /\ pc[ManagerT] = "m_wait"
  /\ sem_wait(ManagerT, QueueLock)
  /\ pc' = [pc EXCEPT ![ManagerT] = "m_pop"]
  /\ UNCHANGED <<amount, status, amount_stored, result_status, available_space,
                 event, queue, queue_size, simulation_running, system_array,
                 pushed, popped, seen>>

\* event_queue_pop lines 106-115: the head is copied out and unlinked, size--
Pop ==
  /\ pc[ManagerT] = "m_pop"
  /\ IF queue = <<>>
       THEN /\ pc' = [pc EXCEPT ![ManagerT] = "m_post_empty"]
            /\ UNCHANGED <<event, queue, queue_size, popped>>
       ELSE /\ event' = [event EXCEPT ![ManagerT] = Head(queue)]
            /\ queue' = Tail(queue)
            /\ queue_size' = queue_size - 1
            /\ popped' = Append(popped, [Head(queue) EXCEPT !.at = Len(pushed)])
            /\ pc' = [pc EXCEPT ![ManagerT] = "m_post_found"]
  /\ UNCHANGED <<amount, sem, status, amount_stored, result_status,
                 available_space, simulation_running, system_array, held,
                 pushed, seen>>

\* line 107 missing: the empty queue is reported with the lock still taken
PopPostEmptyKeepsLock ==
  /\ pc[ManagerT] \in {"m_post_empty", "m_post_found"}
  /\ IF pc[ManagerT] = "m_post_found"
       THEN sem_post(ManagerT, QueueLock)
       ELSE UNCHANGED <<sem, held>>
  /\ pc' = [pc EXCEPT ![ManagerT] = IF pc[ManagerT] = "m_post_found"
                                      THEN "m_handle" ELSE "m_sleep"]
  /\ UNCHANGED <<amount, status, amount_stored, result_status, available_space,
                 event, queue, queue_size, simulation_running, system_array,
                 pushed, popped, seen>>

\* event_queue_pop lines 107-108 and 117-118: sem_post, return 0 or 1
PopPost ==
  /\ pc[ManagerT] \in {"m_post_empty", "m_post_found"}
  /\ sem_post(ManagerT, QueueLock)
  /\ pc' = [pc EXCEPT ![ManagerT] = IF pc[ManagerT] = "m_post_found"
                                      THEN "m_handle" ELSE "m_sleep"]
  /\ UNCHANGED <<amount, status, amount_stored, result_status, available_space,
                 event, queue, queue_size, simulation_running, system_array,
                 pushed, popped, seen>>

(* ---- manager.c ------------------------------------------------------- *)
\* manager_run lines 63-66
no_oxygen_flag(e) == e.status = STATUS_EMPTY /\ e.resource = "Oxygen"
distance_reached_flag(e) == e.status = STATUS_CAPACITY /\ e.resource = "Distance"
need_more_flag(e) ==
  e.status \in {STATUS_LOW, STATUS_EMPTY, STATUS_INSUFFICIENT}
need_less_flag(e) == e.status = STATUS_CAPACITY

\* line 79 setting FAST, like line 77
NewStatusNeverSlow(e) ==
  IF no_oxygen_flag(e) \/ distance_reached_flag(e) THEN TERMINATE
  ELSE FAST

\* lines 68-80 with the shortage branch tested before the terminal ones
NewStatusShortageFirst(e) ==
  IF need_more_flag(e) THEN FAST
  ELSE IF no_oxygen_flag(e) \/ distance_reached_flag(e) THEN TERMINATE
  ELSE SLOW

\* manager_run lines 68-80: the status to set
NewStatus(e) ==
  IF no_oxygen_flag(e) \/ distance_reached_flag(e) THEN TERMINATE
  ELSE IF need_more_flag(e) THEN FAST
  ELSE SLOW

\* line 85 without its test: the status is written to every system
TargetsAll(e) ==
  IF no_oxygen_flag(e) \/ distance_reached_flag(e) \/ need_more_flag(e)
       \/ need_less_flag(e)
    THEN system_array
    ELSE {}

\* line 85 comparing the consumed resource instead of the produced one
TargetsConsumers(e) ==
  IF no_oxygen_flag(e) \/ distance_reached_flag(e) \/ need_more_flag(e)
       \/ need_less_flag(e)
    THEN {s \in system_array :
            NewStatus(e) = TERMINATE \/ Consumed[s].resource = e.resource}
    ELSE {}

\* manager_run lines 82-89: the systems whose status is set
Targets(e) ==
  IF no_oxygen_flag(e) \/ distance_reached_flag(e) \/ need_more_flag(e)
       \/ need_less_flag(e)
    THEN {s \in system_array :
            NewStatus(e) = TERMINATE \/ Produced[s].resource = e.resource}
    ELSE {}

\* manager_thread running manager_run once instead of in a loop
ManagerThreadOnce ==
  /\ pc[ManagerT] \in {"m_loop", "m_sleep"}
  /\ pc' = [pc EXCEPT ![ManagerT] =
              IF simulation_running # 0 /\ pc[ManagerT] = "m_loop"
                THEN "m_wait" ELSE "done"]
  /\ UNCHANGED <<amount, sem, status, amount_stored, result_status,
                 available_space, event, queue, queue_size, simulation_running,
                 system_array, held, pushed, popped, seen>>

\* manager_thread: while (manager->simulation_running) { manager_run; usleep }
\* The thread is at the loop test at the start and when the usleep of line
\* 148 ends; manager_run starts with event_queue_pop.
ManagerThread ==
  /\ pc[ManagerT] \in {"m_loop", "m_sleep"}
  /\ pc' = [pc EXCEPT ![ManagerT] = IF simulation_running # 0 THEN "m_wait" ELSE "done"]
  /\ UNCHANGED <<amount, sem, status, amount_stored, result_status,
                 available_space, event, queue, queue_size, simulation_running,
                 system_array, held, pushed, popped, seen>>

\* manager_run lines 59-91: one popped event is handled, then the next pop
\* (which overwrites the local event)
ManagerHandle ==
  /\ pc[ManagerT] = "m_handle"
  /\ LET e == event[ManagerT]
     IN /\ simulation_running' =
             IF no_oxygen_flag(e) \/ distance_reached_flag(e)
               THEN 0 ELSE simulation_running
        /\ status' = [s \in AllSystems |->
                        IF s \in Targets(e) THEN NewStatus(e) ELSE status[s]]
  /\ event' = [event EXCEPT ![ManagerT] = NoEvent]
  /\ pc' = [pc EXCEPT ![ManagerT] = "m_wait"]
  /\ UNCHANGED <<amount, sem, amount_stored, result_status, available_space,
                 queue, queue_size, system_array, held, pushed, popped, seen>>

(* ---- the program ----------------------------------------------------- *)
Worker(s) ==
  \/ SystemThread(s)
  \/ ConvertWait(s)
  \/ ConvertCheck(s)
  \/ ConvertDec(s)
  \/ ConvertPostOk(s)
  \/ ConvertDone(s)
  \/ ConvertPostFail(s)
  \/ ConvertReturn(s)
  \/ RunConsumeEvent(s)
  \/ StoreWait(s)
  \/ StoreCheck(s)
  \/ StoreAll(s)
  \/ StorePart(s)
  \/ StorePostOk(s)
  \/ StorePostCap(s)
  \/ RunStoreEvent(s)
  \/ PushWait(s)
  \/ PushInsert(s)
  \/ PushPost(s)

Manager ==
  \/ ManagerThread
  \/ PopWait
  \/ Pop
  \/ PopPost
  \/ ManagerHandle

Next == (\E s \in AllSystems : Worker(s)) \/ Manager

Spec == Init /\ [][Next]_vars

(* ---- the EventQueue on its own --------------------------------------- *)
\* Two threads call event_queue_push with events of any priority while a
\* third calls event_queue_pop, in any interleaving; nothing else runs.
QPushers == {"Propulsion", "Generator"}
QPriorities == {PRIORITY_LOW, PRIORITY_MED, PRIORITY_HIGH}

QInit ==
  /\ Constructed
  /\ system_array = {}
  /\ amount = Amounts(0, 0, 0, 0)
  /\ pc = [t \in Threads |->
             IF t \in QPushers \cup {ManagerT} THEN "q_idle" ELSE "absent"]

\* a call of event_queue_push(queue, &event) starts
QPushCall(s) ==
  /\ pc[s] = "q_idle"
  /\ Len(pushed) + Cardinality({u \in QPushers : MayPush(u)}) < MaxPush
  /\ \E priority \in QPriorities :
       event' = [event EXCEPT ![s] =
                   event_init(s, Consumed[s].resource, STATUS_EMPTY, priority, 0)]
  /\ pc' = [pc EXCEPT ![s] = "p_wait"]
  /\ UNCHANGED <<amount, sem, status, amount_stored, result_status,
                 available_space, queue, queue_size, simulation_running,
                 system_array, held, pushed, popped, seen>>

\* event_queue_push has returned
QPushReturn(s) ==
  /\ pc[s] = "b_sleep1"
  /\ pc' = [pc EXCEPT ![s] = "q_idle"]
  /\ UNCHANGED <<amount, sem, status, amount_stored, result_status,
                 available_space, event, queue, queue_size, simulation_running,
                 system_array, held, pushed, popped, seen>>

\* a call of event_queue_pop(queue, &event) starts
QPopCall ==
  /\ pc[ManagerT] = "q_idle"
  /\ pc' = [pc EXCEPT ![ManagerT] = "m_wait"]
  /\ UNCHANGED <<amount, sem, status, amount_stored, result_status,
                 available_space, event, queue, queue_size, simulation_running,
                 system_array, held, pushed, popped, seen>>

\* event_queue_pop has returned (1 with an event, or 0)
QPopReturn ==
  /\ pc[ManagerT] \in {"m_handle", "m_sleep"}
  /\ event' = [event EXCEPT ![ManagerT] = NoEvent]
  /\ pc' = [pc EXCEPT ![ManagerT] = "q_idle"]
  /\ UNCHANGED <<amount, sem, status, amount_stored, result_status,
                 available_space, queue, queue_size, simulation_running,
                 system_array, held, pushed, popped, seen>>

QPusher(s) ==
  \/ QPushCall(s)
  \/ PushWait(s)
  \/ PushInsert(s)
  \/ PushPost(s)
  \/ QPushReturn(s)

QPopper ==
  \/ QPopCall
  \/ PopWait
  \/ Pop
  \/ PopPost
  \/ QPopReturn

QNext == (\E s \in QPushers : QPusher(s)) \/ QPopper

QSpec == QInit /\ [][QNext]_vars

\* The runs of the liveness check: two workers that consume the same
\* Resource, and the manager.
LiveSystems == {"Propulsion", "Generator"}
LiveThreads == LiveSystems \cup {ManagerT}

LiveInit == Init /\ system_array = LiveSystems

\* The scheduler runs every thread that can take a step, and a thread blocked
\* in sem_wait gets the semaphore if it is free again and again.
ThreadStep(t) == IF t = ManagerT THEN Manager ELSE Worker(t)

Acquire(t) ==
  IF t = ManagerT THEN PopWait
  ELSE ConvertWait(t) \/ (pc[t] = "s_wait" /\ StoreWait(t)) \/ PushWait(t)

Fairness == \A t \in LiveThreads : WF_vars(ThreadStep(t)) /\ SF_vars(Acquire(t))

LiveSpec == LiveInit /\ [][Next]_vars /\ Fairness

\* The runs of the termination check: a producer and the consumer of the
\* vital Resource, and the manager, under the same scheduling.
HaltSystems == {"LifeSupport", "Crew"}
HaltThreads == HaltSystems \cup {ManagerT}

HaltInit == Init /\ system_array = HaltSystems

HaltFairness ==
  \A t \in HaltThreads : WF_vars(ThreadStep(t)) /\ SF_vars(Acquire(t))

HaltSpec == HaltInit /\ [][Next]_vars /\ HaltFairness

\* The runs with a disabled system: as the runs of the liveness check, but
\* the status of one system was set to DISABLED before the threads start
\* (nothing in the program writes DISABLED).
DInit ==
  /\ sem = [l \in Locks |-> IF l = QueueLock THEN event_queue_init_value
                                             ELSE resource_create_value]
  /\ \E d \in LiveSystems :
       status = [s \in AllSystems |-> IF s = d THEN DISABLED ELSE STANDARD]
  /\ amount_stored = [s \in AllSystems |-> 0]
  /\ result_status = [s \in AllSystems |-> STATUS_OK]
  /\ available_space = [s \in AllSystems |-> 0]
  /\ event = [t \in Threads |-> NoEvent]
  /\ queue = <<>>
  /\ queue_size = 0
  /\ simulation_running = 1
  /\ held = [t \in Threads |-> {}]
  /\ seen = [s \in AllSystems |-> 0]
  /\ pushed = <<>>
  /\ popped = <<>>
  /\ system_array = LiveSystems
  /\ \E sc \in Scenarios : sc.systems = system_array /\ amount = sc.amount
  /\ pc = [t \in Threads |->
             IF t = ManagerT THEN "m_loop"
             ELSE IF t \in system_array THEN "w_loop" ELSE "absent"]

DSpec == DInit /\ [][Next]_vars

(* ---- the manager on its own ------------------------------------------ *)
\* The manager thread runs as in the program while a thread pushes events of
\* every status on every Resource, one after the other; the system_array
\* holds all the systems, or two of them.
MaxEvents == 2

MPusher == "Propulsion"
MStatuses == {STATUS_EMPTY, STATUS_LOW, STATUS_INSUFFICIENT, STATUS_CAPACITY}

MInit ==
  /\ Constructed
  /\ system_array \in {AllSystems, {"Generator", "LifeSupport"}}
  /\ amount = Amounts(0, 0, 0, 0)
  /\ pc = [t \in Threads |->
             IF t = ManagerT THEN "m_loop"
             ELSE IF t = MPusher THEN "q_idle" ELSE "absent"]

\* system_run lines 69 and 78: a failed system_convert is reported with
\* PRIORITY_HIGH, a failed system_store_resources with PRIORITY_LOW
MPushCall(s) ==
  /\ pc[s] = "q_idle"
  /\ Len(pushed) < MaxEvents
  /\ \E r \in Resources, st \in MStatuses :
       event' = [event EXCEPT ![s] =
                   event_init(s, r, st,
                              IF st = STATUS_CAPACITY THEN PRIORITY_LOW
                                                      ELSE PRIORITY_HIGH, 0)]
  /\ pc' = [pc EXCEPT ![s] = "p_wait"]
  /\ UNCHANGED <<amount, sem, status, amount_stored, result_status,
                 available_space, queue, queue_size, simulation_running,
                 system_array, held, pushed, popped, seen>>

MNext ==
  \/ MPushCall(MPusher)
  \/ PushWait(MPusher)
  \/ PushInsert(MPusher)
  \/ PushPost(MPusher)
  \/ QPushReturn(MPusher)
  \/ Manager

MSpec == MInit /\ [][MNext]_vars

(* ---- helpers of the properties --------------------------------------- *)
\* t took a step
Stepped(t) == pc'[t] # pc[t]

\* the threads that hold semaphore l
Holders(l) == {t \in Threads : l \in held[t]}

\* the semaphore a thread is blocked on, if any
WaitsFor(t) ==
  IF t = ManagerT
    THEN IF pc[t] = "m_wait" THEN QueueLock ELSE NULL
    ELSE CASE pc[t] = "c_wait" -> Consumed[t].resource
           [] pc[t] = "s_wait" -> Produced[t].resource
           [] pc[t] = "p_wait" -> QueueLock
           [] OTHER -> NULL

\* the semaphores a thread ever waits for
LocksOf(t) ==
  IF t = ManagerT THEN {QueueLock}
  ELSE ({Consumed[t].resource, Produced[t].resource} \ {NULL}) \cup {QueueLock}

\* in a timed pause (usleep)
Sleeping(t) == pc[t] \in {"c_sleep", "b_sleep1", "b_sleep2", "m_sleep"}

\* an event without its history fields
Plain(e) == [e EXCEPT !.at = 0]
Occurrences(q, e) == Cardinality({i \in DOMAIN q : Plain(q[i]) = Plain(e)})

(* ---- C1 -------------------------------------------------------------- *)
\* C1: in every reachable state every Resource has 0 <= amount <= max_capacity.
C1_AmountInRange ==
  \A r \in Resources : 0 <= amount[r] /\ amount[r] <= MaxCapacity[r]

\* one worker has just taken a resource down to 0 while another has just
\* filled a resource to its capacity with part of what it had stored
C1_Witness ==
  \E s1, s2 \in AllSystems :
    /\ pc[s1] = "c_post_ok" /\ amount[Consumed[s1].resource] = 0
    /\ pc[s2] = "s_post_cap" /\ amount_stored[s2] > 0
    /\ amount[Produced[s2].resource] = MaxCapacity[Produced[s2].resource]

(* ---- C2 -------------------------------------------------------------- *)
\* C2: a consume attempt for r units, with a the amount read by the locked
\* test: a >= r takes the OK branch and leaves amount = a - r; a < r fails,
\* leaves amount = a, and returns EMPTY when a = 0, INSUFFICIENT otherwise.
C2_ConsumeOutcome ==
  \A s \in AllSystems :
    LET r == Consumed[s].amount
        res == Consumed[s].resource
    IN /\ pc[s] \in {"c_dec", "c_post_ok"} => seen[s] >= r
       /\ pc[s] = "c_post_ok" => amount[res] = seen[s] - r
       /\ pc[s] \in {"c_post_fail", "c_ret", "c_evt"} => seen[s] < r
       /\ pc[s] = "c_post_fail" => amount[res] = seen[s]
       /\ pc[s] = "c_evt" =>
            result_status[s] = IF seen[s] = 0 THEN STATUS_EMPTY
                                              ELSE STATUS_INSUFFICIENT

(* ---- C3 -------------------------------------------------------------- *)
\* C3: a deposit of s > 0 stored units with available = max_capacity - amount:
\* s <= available: OK, amount grows by s, the buffer becomes 0;
\* s > available > 0: CAPACITY, amount becomes max_capacity, the buffer s - available;
\* available = 0: CAPACITY, amount and buffer unchanged;
\* every step of the attempt conserves amount + buffer.
C3_DepositStep(s) ==
  LET p == Produced[s].resource
      space == MaxCapacity[p] - amount[p]
      stored == amount_stored[s]
  IN /\ pc[s] = "s_check" =>
          /\ stored > 0
          /\ pc'[s] = "s_all" <=> stored <= space
          /\ pc'[s] = "s_part" <=> (stored > space /\ space > 0)
          /\ pc'[s] = "s_post_cap" <=> space = 0
          /\ amount'[p] = amount[p] /\ amount_stored'[s] = stored
     /\ pc[s] = "s_all" =>
          /\ stored <= space
          /\ amount'[p] = amount[p] + stored
          /\ amount_stored'[s] = 0
          /\ pc'[s] = "s_post_ok"
     /\ pc[s] = "s_part" =>
          /\ stored > space /\ space > 0
          /\ amount'[p] = MaxCapacity[p]
          /\ amount_stored'[s] = stored - space
          /\ pc'[s] = "s_post_cap"
     /\ pc[s] = "s_post_ok" =>
          /\ result_status'[s] = STATUS_OK
          /\ amount'[p] = amount[p] /\ amount_stored'[s] = 0
     /\ pc[s] = "s_post_cap" =>
          /\ result_status'[s] = STATUS_CAPACITY
          /\ amount'[p] = amount[p] /\ amount_stored'[s] = stored
          /\ stored > 0
     /\ pc[s] \in {"s_check", "s_all", "s_part", "s_post_ok", "s_post_cap"} =>
          amount'[p] + amount_stored'[s] = amount[p] + stored

C3_Deposit == [][\A s \in AllSystems : Stepped(s) => C3_DepositStep(s)]_vars

\* a deposit has just stored only part of the buffer: the resource is full
\* and the remainder is kept
C3_Witness ==
  \E s \in AllSystems :
    /\ pc[s] = "s_post_cap"
    /\ available_space[s] > 0
    /\ amount_stored[s] = Produced[s].amount - available_space[s]
    /\ amount[Produced[s].resource] = MaxCapacity[Produced[s].resource]

(* ---- C4 -------------------------------------------------------------- *)
\* C4: read head to tail, the queue's priorities never increase, and entries
\* of equal priority are in the order they were pushed.
C4_QueueOrdered ==
  \A i, j \in DOMAIN queue :
    i < j => /\ queue[i].priority >= queue[j].priority
             /\ queue[i].priority = queue[j].priority => queue[i].seq < queue[j].seq

\* a LOW event, then two MEDIUM events from different threads: the last push
\* linked its node in the middle of the list, behind the MEDIUM event pushed
\* before it and ahead of the LOW one
C4_Witness ==
  /\ Len(queue) = 3
  /\ queue[1].priority = PRIORITY_MED /\ queue[2].priority = PRIORITY_MED
  /\ queue[3].priority = PRIORITY_LOW
  /\ queue[3].seq = 1 /\ queue[1].seq = 2 /\ queue[2].seq = 3
  /\ queue[1].system # queue[2].system

(* ---- C5 -------------------------------------------------------------- *)
\* C5: a pop returns an event of the highest priority in the queue, the first
\* pushed among those; of two popped events the one popped first has the
\* higher priority if both were in the queue then, and was pushed first if
\* their priorities are equal.
C5_PopOrder ==
  /\ pc[ManagerT] = "m_post_found" =>
       \A i \in DOMAIN queue :
         /\ queue[i].priority <= event[ManagerT].priority
         /\ queue[i].priority = event[ManagerT].priority
              => event[ManagerT].seq < queue[i].seq
  /\ \A i, j \in DOMAIN popped :
       i < j =>
         /\ popped[j].seq <= popped[i].at => popped[i].priority >= popped[j].priority
         /\ popped[i].priority = popped[j].priority => popped[i].seq < popped[j].seq
  /\ \A i \in DOMAIN popped : \A j \in DOMAIN queue :
       popped[i].priority = queue[j].priority => popped[i].seq < queue[j].seq

\* three events were pushed before the first pop, by two threads, the
\* highest priority in the middle and the other two of equal priority, and
\* the third pop has just returned the last of them
C5_Witness ==
  /\ Len(popped) = 3 /\ pc[ManagerT] = "m_post_found"
  /\ \A i \in DOMAIN popped : popped[i].at = 3
  /\ pushed[1].priority < pushed[2].priority
  /\ pushed[3].priority = pushed[1].priority
  /\ pushed[1].system # pushed[3].system

(* ---- C6 -------------------------------------------------------------- *)
\* C6: the events popped so far together with the events in the queue are,
\* as multisets, the events pushed so far; size counts the queue.
C6_NoLossNoDuplication ==
  /\ \A i \in DOMAIN pushed :
       Occurrences(pushed, pushed[i])
         = Occurrences(popped, pushed[i]) + Occurrences(queue, pushed[i])
  /\ \A i \in DOMAIN popped : Occurrences(pushed, popped[i]) > 0
  /\ \A i \in DOMAIN queue : Occurrences(pushed, queue[i]) > 0
  /\ Len(pushed) = Len(popped) + Len(queue)
  /\ queue_size = Len(queue)

\* N = 3 pushes by two threads, concurrent with the pops (an event was
\* popped before the last was pushed), and the 3 events popped
C6_Witness ==
  /\ Len(pushed) = 3 /\ Len(popped) = 3 /\ queue = <<>>
  /\ popped[1].at < 3
  /\ \E i, j \in DOMAIN pushed : pushed[i].system # pushed[j].system

(* ---- C7 -------------------------------------------------------------- *)
\* C7: at most one thread holds a given semaphore, and a Resource's amount
\* changes only in a step of the thread that holds that Resource's semaphore.
C7_MutualExclusion ==
  /\ [](\A l \in Locks : Cardinality(Holders(l)) <= 1 /\ sem[l] \in {0, 1})
  /\ [][\A r \in Resources :
          amount'[r] # amount[r] => \E t \in Holders(r) : Stepped(t)]_vars

\* a worker inside its critical section has changed the amount while the
\* other consumer of the same resource waits for the semaphore
C7_Witness ==
  \E s1, s2 \in AllSystems :
    /\ s1 # s2
    /\ pc[s1] = "c_post_ok" /\ pc[s2] = "c_wait"
    /\ Consumed[s1].resource = Consumed[s2].resource
    /\ sem[Consumed[s1].resource] = 0

(* ---- C8 -------------------------------------------------------------- *)
\* C8: no thread holds two semaphores at once.
C8_OneLockAtATime == \A t \in Threads : Cardinality(held[t]) <= 1

\* a worker that took and released a Resource's semaphore in this call of
\* system_run now holds the queue's
C8_Witness ==
  \E s \in AllSystems :
    /\ pc[s] = "p_ins" /\ held[s] = {QueueLock}
    /\ event[s].status = STATUS_CAPACITY

(* ---- C9 -------------------------------------------------------------- *)
\* C9: a thread in a timed pause (processing delay, backoff, polling sleep)
\* holds no semaphore.
C9_NoLockWhileSleeping == \A t \in Threads : Sleeping(t) => held[t] = {}

\* a worker in its processing delay, a worker in its backoff and the manager
\* in its polling sleep, at the same time
C9_Witness ==
  /\ pc[ManagerT] = "m_sleep"
  /\ \E s1, s2 \in AllSystems :
       pc[s1] = "c_sleep" /\ pc[s2] \in {"b_sleep1", "b_sleep2"}

(* ---- C10 ------------------------------------------------------------- *)
\* C10: no deadlock (a thread blocked in sem_wait waits for a semaphore that
\* is free or held by another thread that can take a step), and under fair
\* scheduling every sem_wait returns and every semaphore taken is posted:
\* each thread is again and again neither blocked in sem_wait nor holding a
\* semaphore (a sem_wait that never returned, or a semaphore never posted,
\* would leave it blocked, or holding, for ever).
C10_NoBlocking ==
  /\ [](\A t \in Threads :
          WaitsFor(t) # NULL =>
            \/ sem[WaitsFor(t)] > 0
            \/ \E u \in Holders(WaitsFor(t)) : u # t /\ ENABLED ThreadStep(u))
  /\ \A t \in LiveThreads : []<>(WaitsFor(t) = NULL /\ held[t] = {})

\* a worker is blocked on the queue's semaphore, which the manager holds,
\* while the other worker holds the semaphore of the Resource both consume
C10_Witness ==
  /\ QueueLock \in held[ManagerT]
  /\ \E s1, s2 \in LiveSystems :
       /\ pc[s1] = "p_wait" /\ sem[QueueLock] = 0
       /\ Consumed[s1].resource \in held[s2]

(* ---- C11 ------------------------------------------------------------- *)
\* the terminal events of the claims: EMPTY on Oxygen, CAPACITY on Distance
TerminalEvent(e) ==
  \/ e.status = STATUS_EMPTY /\ e.resource = "Oxygen"
  \/ e.status = STATUS_CAPACITY /\ e.resource = "Distance"

\* the manager processes e, the event it popped (manager_run lines 59-90)
Processes(e) ==
  /\ pc[ManagerT] = "m_handle" /\ pc'[ManagerT] # "m_handle"
  /\ e = event[ManagerT]

\* C11: right after the manager has processed a terminal event (EMPTY on
\* Oxygen, CAPACITY on Distance) every system of the system_array has status
\* TERMINATE (none was set to FAST or SLOW) and simulation_running is 0.
C11_TerminalEvent ==
  [][\A e \in {event[ManagerT]} :
       Processes(e) /\ TerminalEvent(e) =>
         /\ \A s \in system_array : status'[s] = TERMINATE
         /\ simulation_running' = 0]_vars

\* both terminal events have been processed, with all five systems in the
\* system_array, and the manager thread has ended
C11_Witness ==
  /\ system_array = AllSystems
  /\ Len(popped) = 2 /\ pc[ManagerT] = "done"
  /\ \E i, j \in DOMAIN popped :
       /\ popped[i].resource = "Oxygen" /\ popped[i].status = STATUS_EMPTY
       /\ popped[j].resource = "Distance" /\ popped[j].status = STATUS_CAPACITY
  /\ \A s \in system_array : status[s] = TERMINATE
  /\ simulation_running = 0

(* ---- C12 ------------------------------------------------------------- *)
\* C12: once the manager has processed a terminal event (simulation_running
\* is 0), whatever else is in the queue, under fair scheduling the manager
\* thread ends and every system thread reads TERMINATE at its loop test and
\* ends: all threads can be joined. So when the manager thread has ended,
\* after which nothing writes a status, every system has status TERMINATE.
C12_RunHalts ==
  /\ [](pc[ManagerT] = "done" => \A s \in system_array : status[s] = TERMINATE)
  /\ (simulation_running = 0) ~> (\A t \in HaltThreads : pc[t] = "done")

(* ---- C13 ------------------------------------------------------------- *)
\* the systems of the system_array that produce Resource r
Producers(r) == {s \in system_array : Produced[s].resource = r}

\* C13: right after the manager has processed an event that is not terminal
\* and has status LOW, EMPTY or INSUFFICIENT, every system that produces the
\* event's Resource has status FAST.
C13_ShortageFast ==
  [][\A e \in {event[ManagerT]} :
       /\ Processes(e) /\ ~TerminalEvent(e)
       /\ e.status \in {STATUS_LOW, STATUS_EMPTY, STATUS_INSUFFICIENT}
       => \A s \in Producers(e.resource) : status'[s] = FAST]_vars

\* INSUFFICIENT on Energy has just been processed after LOW on Oxygen: the
\* two producers of Energy and the producer of Oxygen are FAST
C13_Witness ==
  /\ system_array = AllSystems
  /\ Len(popped) = 2 /\ pc[ManagerT] = "m_wait"
  /\ popped[1].resource = "Oxygen" /\ popped[1].status = STATUS_LOW
  /\ popped[2].resource = "Energy" /\ popped[2].status = STATUS_INSUFFICIENT
  /\ status["Generator"] = FAST /\ status["Solar"] = FAST
  /\ status["LifeSupport"] = FAST
  /\ status["Propulsion"] = STANDARD /\ status["Crew"] = STANDARD

(* ---- C14 ------------------------------------------------------------- *)
\* C14: right after the manager has processed a CAPACITY event on a Resource
\* other than Distance, every system that produces that Resource has status
\* SLOW.
C14_OverflowSlow ==
  [][\A e \in {event[ManagerT]} :
       /\ Processes(e)
       /\ e.status = STATUS_CAPACITY /\ e.resource # "Distance"
       => \A s \in Producers(e.resource) : status'[s] = SLOW]_vars

\* CAPACITY on Energy has just been processed after a shortage of Energy:
\* the two producers of Energy went from FAST to SLOW
C14_Witness ==
  /\ system_array = AllSystems
  /\ Len(popped) = 2 /\ pc[ManagerT] = "m_wait"
  /\ popped[1].resource = "Energy" /\ popped[1].status = STATUS_EMPTY
  /\ popped[1].at = 1
  /\ popped[2].resource = "Energy" /\ popped[2].status = STATUS_CAPACITY
  /\ status["Generator"] = SLOW /\ status["Solar"] = SLOW
  /\ \A s \in AllSystems \ {"Generator", "Solar"} : status[s] = STANDARD

(* ---- C15 ------------------------------------------------------------- *)
\* the event of a failed consume
ConsumeFailure(e) ==
  /\ e.system \in AllSystems
  /\ e.resource = Consumed[e.system].resource /\ e.resource # NULL
  /\ e.status \in {STATUS_EMPTY, STATUS_INSUFFICIENT}
  /\ e.priority = PRIORITY_HIGH

\* the event of a failed deposit
DepositFailure(e) ==
  /\ e.system \in AllSystems
  /\ e.resource = Produced[e.system].resource /\ e.resource # NULL
  /\ e.status = STATUS_CAPACITY
  /\ e.priority = PRIORITY_LOW

\* C15: every event pushed, and so every event in the queue, is the event of
\* a failed consume (the system's consumed Resource, EMPTY or INSUFFICIENT,
\* HIGH) or of a failed deposit (its produced Resource, CAPACITY, LOW): none
\* has status OK or LOW or priority MEDIUM. One call of system_run pushes at
\* most one event: the call that pushed for a failed consume has nothing
\* stored, so it skips the deposit (line 75), and the event being pushed is
\* a consume failure exactly when the status returned is not CAPACITY.
C15_EventShapes ==
  /\ \A i \in DOMAIN pushed : ConsumeFailure(pushed[i]) \/ DepositFailure(pushed[i])
  /\ \A i \in DOMAIN queue :
       /\ ConsumeFailure(queue[i]) \/ DepositFailure(queue[i])
       /\ queue[i].status \notin {STATUS_OK, STATUS_LOW}
       /\ queue[i].priority # PRIORITY_MED
  /\ \A s \in AllSystems :
       /\ pc[s] \in {"p_wait", "p_ins", "p_post"} =>
            /\ event[s].status = result_status[s]
            /\ IF result_status[s] = STATUS_CAPACITY
                 THEN DepositFailure(event[s]) ELSE ConsumeFailure(event[s])
            /\ ConsumeFailure(event[s]) => amount_stored[s] = 0
       /\ pc[s] = "b_sleep1" => amount_stored[s] = 0

\* the queue holds an event of each shape, pushed by different systems, the
\* consume failure ahead of the deposit failure pushed before it
C15_Witness ==
  /\ Len(queue) = 2
  /\ ConsumeFailure(queue[1]) /\ DepositFailure(queue[2])
  /\ queue[1].system # queue[2].system
  /\ queue[2].seq < queue[1].seq

(* ---- C16 ------------------------------------------------------------- *)
\* system_convert returns STATUS_OK in this step of s
ConvertReturnsOk(s) ==
  /\ Stepped(s)
  /\ \/ pc[s] = "c_sleep"
     \/ pc[s] = "c_wait" /\ Consumed[s].resource = NULL

\* C16: whenever system_convert returns STATUS_OK for a system that has a
\* produced resource (also when it has no consumed resource), amount_stored
\* has grown by the produced amount and system_run goes on to the deposit.
C16_ConvertOkStores ==
  [][\A s \in AllSystems :
       ConvertReturnsOk(s) /\ Produced[s].resource # NULL =>
         /\ amount_stored'[s] = amount_stored[s] + Produced[s].amount
         /\ pc'[s] = "s_wait"]_vars

(* ---- C17 ------------------------------------------------------------- *)
\* at the loop test of system_thread
AtLoopTest(s) == pc[s] \in {"w_loop", "b_sleep1", "b_sleep2"}

\* C17: a failed consume or deposit does not end the thread: the system
\* pushes its event, backs off and, unless it then reads TERMINATE, attempts
\* the same step again; a system thread ends only at its loop test, reading
\* status TERMINATE.
C17_StepRecovers(s) ==
  /\ pc'[s] = "done" => AtLoopTest(s) /\ status[s] = TERMINATE
  /\ pc[s] \in {"c_post_fail", "c_ret"} => pc'[s] \in {"c_ret", "c_evt"}
  /\ pc[s] = "s_post_cap" => pc'[s] = "s_evt"
  /\ pc[s] \in {"c_evt", "s_evt"} => pc'[s] = "p_wait" /\ event'[s] # NoEvent
  /\ pc[s] = "p_ins" => Len(pushed') = Len(pushed) + 1
  /\ pc[s] = "p_post" =>
       pc'[s] = IF DepositFailure(event[s]) THEN "b_sleep2" ELSE "b_sleep1"
  /\ pc[s] = "b_sleep1" /\ status[s] # TERMINATE => pc'[s] = "c_wait"
  /\ pc[s] = "b_sleep2" /\ status[s] # TERMINATE =>
       pc'[s] = "s_wait" /\ amount_stored[s] > 0

C17_Recoverable == [][\A s \in AllSystems : Stepped(s) => C17_StepRecovers(s)]_vars

\* a system whose deposit failed and whose event was pushed is depositing
\* the remainder again, while the other system's thread has ended
C17_Witness ==
  \E s1, s2 \in system_array :
    /\ pc[s1] = "s_check"
    /\ 0 < amount_stored[s1] /\ amount_stored[s1] < Produced[s1].amount
    /\ \E i \in DOMAIN pushed : pushed[i].system = s1 /\ DepositFailure(pushed[i])
    /\ pc[s2] = "done"

(* ---- C18 ------------------------------------------------------------- *)
\* the i-th event pushed has been popped and processed by the manager
Processed(i) ==
  \E j \in DOMAIN popped :
    /\ popped[j].seq = i
    /\ j < Len(popped) \/ pc[ManagerT] \notin {"m_post_found", "m_handle"}

\* no event has been popped twice
PoppedOnce ==
  \A j, k \in DOMAIN popped : j # k => popped[j].seq # popped[k].seq

C19_PopEmpty ==
  /\ [](pc[ManagerT] \in {"m_pop", "m_post_empty"} /\ queue = <<>> =>
          /\ ENABLED (Pop \/ PopPost)
          /\ queue_size = 0
          /\ held[ManagerT] = {QueueLock})
  /\ [][pc[ManagerT] = "m_pop" /\ queue = <<>> /\ Stepped(ManagerT) =>
          /\ pc'[ManagerT] = "m_post_empty"
          /\ queue' = queue /\ queue_size' = queue_size
          /\ event' = event /\ popped' = popped]_vars
  /\ [][pc[ManagerT] = "m_post_empty" /\ Stepped(ManagerT) =>
          /\ pc'[ManagerT] = "m_sleep"
          /\ queue' = <<>> /\ queue_size' = 0
          /\ sem'[QueueLock] = 1 /\ Holders(QueueLock)' = {}]_vars

\* a pop finds the queue empty, after an earlier pop had emptied it, while a
\* thread waits for the lock to push
C19_Witness ==
  /\ pc[ManagerT] = "m_post_empty"
  /\ Len(popped) > 0 /\ queue = <<>>
  /\ \E s \in QPushers : pc[s] = "p_wait"

Sinks == {s \in system_array : Produced[s].resource = NULL}

\* inside system_store_resources, past its first test (line 157)
Depositing(s) ==
  pc[s] \in {"s_check", "s_all", "s_part", "s_post_ok", "s_post_cap", "s_evt"}

\* C21: a system without a produced resource never has anything stored,
\* never gets past the first test of system_store_resources (it takes no
\* semaphore but its consumed Resource's and the queue's) and never pushes a
\* CAPACITY event.
C21_SinkSkipsDeposit ==
  \A s \in Sinks :
    /\ amount_stored[s] = 0
    /\ ~Depositing(s)
    /\ held[s] \subseteq {Consumed[s].resource, QueueLock}
    /\ result_status[s] # STATUS_CAPACITY /\ event[s].status # STATUS_CAPACITY
    /\ \A i \in DOMAIN pushed :
         pushed[i].system = s => pushed[i].status # STATUS_CAPACITY

\* a system without a produced resource has consumed with success, found its
\* Resource empty on a later call and pushed that event, and is back at its
\* loop test with nothing stored
C21_Witness ==
  \E s \in Sinks :
    /\ pc[s] = "b_sleep1" /\ amount_stored[s] = 0
    /\ \E i \in DOMAIN pushed : pushed[i].system = s /\ pushed[i].amount = 0
    /\ \E sc \in Scenarios :
         /\ sc.systems = system_array
         /\ sc.amount[Consumed[s].resource] > 0

(* ---- C22 ------------------------------------------------------------- *)
\* C22: when the manager processes an event that is not terminal, the status
\* of every system that does not produce the event's Resource (or is not in
\* the system_array) and simulation_running are unchanged; no step of the
\* manager changes a Resource's amount or a system's amount_stored.
C22_ManagerFrame ==
  [][/\ \A e \in {event[ManagerT]} :
          Processes(e) /\ ~TerminalEvent(e) =>
            /\ \A s \in AllSystems \ Producers(e.resource) : status'[s] = status[s]
            /\ simulation_running' = simulation_running
     /\ Stepped(ManagerT) => amount' = amount /\ amount_stored' = amount_stored
    ]_vars

\* the manager has just processed a shortage event: the producer of its
\* Resource is FAST, the other system still STANDARD, the run goes on, and
\* the systems have changed amounts and hold something stored
C22_Witness ==
  /\ pc[ManagerT] = "m_wait" /\ Len(popped) > 0
  /\ simulation_running = 1
  /\ \E s1, s2 \in system_array :
       /\ popped[Len(popped)].resource = Produced[s1].resource
       /\ status[s1] = FAST /\ status[s2] = STANDARD
       /\ amount_stored[s1] > 0
  /\ \E sc \in Scenarios : sc.systems = system_array /\ sc.amount # amount

(* ---- C23 ------------------------------------------------------------- *)
\* C23: once a system's status is TERMINATE no step changes it.
C23_TerminatePermanent ==
  [][\A s \in system_array : status[s] = TERMINATE => status'[s] = TERMINATE]_vars

(* ---- C24 ------------------------------------------------------------- *)
\* C24: the amount of every event pushed agrees with its status: 0 for
\* EMPTY, above 0 and below the amount its system consumes for INSUFFICIENT,
\* the max_capacity of its Resource for CAPACITY.
C24_EventAmount ==
  \A i \in DOMAIN pushed :
    LET e == pushed[i]
    IN /\ e.status = STATUS_EMPTY => e.amount = 0
       /\ e.status = STATUS_INSUFFICIENT =>
            0 < e.amount /\ e.amount < Consumed[e.system].amount
       /\ e.status = STATUS_CAPACITY => e.amount = MaxCapacity[e.resource]

(* ---- C25 ------------------------------------------------------------- *)
\* inside system_convert, or creating the event of its failure
Converting(s) ==
  pc[s] \in {"c_wait", "c_check", "c_dec", "c_post_ok", "c_sleep",
             "c_post_fail", "c_ret", "c_evt"}

\* C25: amount_stored is between 0 and the amount the system produces, and
\* system_convert runs only with nothing stored (it is 0 until the processing
\* delay ends).
C25_StoredInRange ==
  \A s \in AllSystems :
    /\ 0 <= amount_stored[s] /\ amount_stored[s] <= Produced[s].amount
    /\ Converting(s) => amount_stored[s] = 0

\* a system keeps the remainder of a failed deposit and deposits again
\* instead of consuming, although its consumed Resource has enough
C25_Witness ==
  \E s \in system_array :
    /\ pc[s] = "s_wait"
    /\ 0 < amount_stored[s] /\ amount_stored[s] < Produced[s].amount
    /\ amount[Consumed[s].resource] >= Consumed[s].amount
    /\ \E i \in DOMAIN pushed : pushed[i].system = s /\ DepositFailure(pushed[i])

=============================================================================
